---- MODULE Spec2Model ----
(***************************************************************************)
(* A model of the two log formatters of the logrus package:               *)
(*   - TextFormatter / textFormatter   (src/text_formatter.go)            *)
(*   - JSONFormatter / jsonFormatter   (src/unnamed/part_000)             *)
(* Strings and byte buffers are sequences of character codes, so that the  *)
(* quoting rule, the JSON encoding and the padding verbs are computed the  *)
(* way the code computes them.                                             *)
(***************************************************************************)
EXTENDS Integers, Sequences, FiniteSets, TLC

(***************************************************************************)
(* Characters and strings                                                  *)
(***************************************************************************)

\* The printable ASCII characters in code order, starting at code 32
\* (code 96 is spelled out: it cannot be written as a character here).
Printable ==
  << " ", "!", "\"", "#", "$", "%", "&", "'", "(", ")", "*", "+", ",", "-", ".", "/",
     "0", "1", "2", "3", "4", "5", "6", "7", "8", "9", ":", ";", "<", "=", ">", "?",
     "@", "A", "B", "C", "D", "E", "F", "G", "H", "I", "J", "K", "L", "M", "N", "O",
     "P", "Q", "R", "S", "T", "U", "V", "W", "X", "Y", "Z", "[", "\\", "]", "^", "_",
     "backquote", "a", "b", "c", "d", "e", "f", "g", "h", "i", "j", "k", "l", "m", "n", "o",
     "p", "q", "r", "s", "t", "u", "v", "w", "x", "y", "z", "{", "|", "}", "~" >>

\* The code of a printable character.
Ord(c) == 31 + (CHOOSE i \in DOMAIN Printable : Printable[i] = c)

\* A string literal, written one character per element, as its codes.
S(lit) == [i \in DOMAIN lit |-> Ord(lit[i])]

ESC == 27
LF == 10

\* The string literals of the source and of the libraries it calls.
strDebug == S(<< "d", "e", "b", "u", "g" >>)
strInfo == S(<< "i", "n", "f", "o" >>)
strWarning == S(<< "w", "a", "r", "n", "i", "n", "g" >>)
strError == S(<< "e", "r", "r", "o", "r" >>)
strFatal == S(<< "f", "a", "t", "a", "l" >>)
strPanic == S(<< "p", "a", "n", "i", "c" >>)
strUnknown == S(<< "u", "n", "k", "n", "o", "w", "n" >>)
strNaN == S(<< "N", "a", "N" >>)
strNil == S(<< "<", "n", "i", "l", ">" >>)
strNull == S(<< "n", "u", "l", "l" >>)
strDoubleQuote == S(<< "\"" >>)
strUnsupported ==
  S(<< "j", "s", "o", "n", ":", " ", "u", "n", "s", "u", "p", "p", "o", "r", "t", "e", "d",
       " ", "v", "a", "l", "u", "e", ":", " ", "N", "a", "N" >>)
strFailedToMarshal ==
  S(<< "F", "a", "i", "l", "e", "d", " ", "t", "o", " ", "m", "a", "r", "s", "h", "a", "l",
       " ", "f", "i", "e", "l", "d", "s", " ", "t", "o", " ", "J", "S", "O", "N", ",", " " >>)
layoutZone == S(<< "Z", "0", "7", ":", "0", "0" >>)
layoutYear == S(<< "2", "0", "0", "6" >>)
layoutMonth == S(<< "0", "1" >>)
layoutDay == S(<< "0", "2" >>)
layoutHour == S(<< "1", "5" >>)
layoutMinute == S(<< "0", "4" >>)
layoutSecond == S(<< "0", "5" >>)
strZ == S(<< "Z" >>)
strYear == S(<< "2", "0", "2", "4" >>)

\* TRUE iff sub occurs in s as a contiguous run of bytes.
Contains(s, sub) ==
  \E i \in 0..(Len(s) - Len(sub)) : SubSeq(s, i + 1, i + Len(sub)) = sub

\* TRUE iff s starts with pre.
HasPrefix(s, pre) == Len(pre) <= Len(s) /\ SubSeq(s, 1, Len(pre)) = pre

\* TRUE iff s ends with suf.
HasSuffix(s, suf) ==
  Len(suf) <= Len(s) /\ SubSeq(s, Len(s) - Len(suf) + 1, Len(s)) = suf

RECURSIVE StrLess(_, _)
\* Byte-wise lexicographic order on strings (Go's < on strings).
StrLess(a, b) ==
  IF b = << >> THEN FALSE
  ELSE IF a = << >> THEN TRUE
  ELSE IF Head(a) # Head(b) THEN Head(a) < Head(b)
  ELSE StrLess(Tail(a), Tail(b))

RECURSIVE Itoa(_)
\* The decimal digits of a natural number.
Itoa(n) == IF n < 10 THEN << 48 + n >> ELSE Itoa(n \div 10) \o << 48 + (n % 10) >>

RECURSIVE Repeat(_, _)
\* n copies of the byte c.
Repeat(c, n) == IF n <= 0 THEN << >> ELSE << c >> \o Repeat(c, n - 1)

\* strings.ToUpper on ASCII text.
ToUpper(s) == [i \in DOMAIN s |-> IF s[i] >= 97 /\ s[i] <= 122 THEN s[i] - 32 ELSE s[i]]

(***************************************************************************)
(* Values, events and the reserved field names                             *)
(***************************************************************************)

None == [t |-> "none"]

\* The dynamic types an attribute value (interface{}) has in the model.
StrVal(s) == [t |-> "str", s |-> s, n |-> 0]
ErrVal(s) == [t |-> "err", s |-> s, n |-> 0]
IntVal(n) == [t |-> "int", s |-> << >>, n |-> n]
NaNVal == [t |-> "nan", s |-> << >>, n |-> 0]
NilVal == [t |-> "nil", s |-> << >>, n |-> 0]

FieldKeyMsg == S(<< "m", "s", "g" >>)
FieldKeyLevel == S(<< "l", "e", "v", "e", "l" >>)
FieldKeyTime == S(<< "t", "i", "m", "e" >>)

\* The severity levels, highest severity first.
Levels ==
  { "PanicLevel", "FatalLevel", "ErrorLevel", "WarnLevel", "InfoLevel", "DebugLevel" }

\* Level.String().
LevelString(l) ==
  CASE l = "DebugLevel" -> strDebug
    [] l = "InfoLevel" -> strInfo
    [] l = "WarnLevel" -> strWarning
    [] l = "ErrorLevel" -> strError
    [] l = "FatalLevel" -> strFatal
    [] l = "PanicLevel" -> strPanic
    [] OTHER -> strUnknown

\* The map m with key k set to v (m[k] = v on a Go map).
MapSet(m, k, v) == [x \in DOMAIN m \cup {k} |-> IF x = k THEN v ELSE m[x]]

\* The map m without key k (delete(m, k)).
MapDelete(m, k) == [x \in DOMAIN m \ {k} |-> m[x]]

\* m[k] on a Go map: the nil interface when the key is absent.
MapGet(m, k) == IF k \in DOMAIN m THEN m[k] ELSE NilVal

FieldsPrefix == S(<< "f", "i", "e", "l", "d", "s", "." >>)

\* One reserved name of prefixFieldClashes, first half: the attribute's value
\* is stored under the prefixed key (a later write wins over an attribute
\* that already has that key).
prefixClashInsert(data, name) ==
  IF name \in DOMAIN data THEN MapSet(data, FieldsPrefix \o name, data[name]) ELSE data

\* One reserved name of prefixFieldClashes, second half: the attribute leaves
\* its reserved key.
prefixClashDelete(data, name) == MapDelete(data, name)

\* The order in which prefixFieldClashes visits the reserved names.
ReservedNames == << FieldKeyTime, FieldKeyMsg, FieldKeyLevel >>

RECURSIVE prefixClashesFrom(_, _)
prefixClashesFrom(data, i) ==
  IF i > Len(ReservedNames) THEN data
  ELSE prefixClashesFrom(
         prefixClashDelete(prefixClashInsert(data, ReservedNames[i]), ReservedNames[i]),
         i + 1)

\* prefixFieldClashes(data): every attribute whose key is "time", "msg" or
\* "level" is renamed, in place, to "fields.<key>".
prefixFieldClashes(data) == prefixClashesFrom(data, 1)

(***************************************************************************)
(* time.Time.Format and the fmt verbs                                      *)
(***************************************************************************)

\* Clock ticks per second: an instant is a number of ticks after
\* 2024-01-02T15:04:00Z, and every instant of the model lies in that minute.
Second == 2

\* a / b on Go integers: the quotient is truncated toward zero.
TruncDiv(a, b) == IF a >= 0 THEN a \div b ELSE -((-a) \div b)

\* Two decimal digits.
TwoDigits(n) == << 48 + ((n \div 10) % 10), 48 + (n % 10) >>

\* time.RFC3339, the value of DefaultTimestampFormat.
DefaultTimestampFormat ==
  S(<< "2", "0", "0", "6", "-", "0", "1", "-", "0", "2", "T",
       "1", "5", ":", "0", "4", ":", "0", "5", "Z", "0", "7", ":", "0", "0" >>)

RECURSIVE TimeFormat(_, _)
\* t.Format(layout) for a UTC instant t: the reference-time elements of the
\* layout are replaced by the fields of t, anything else is copied.
TimeFormat(t, layout) ==
  LET rest(n) == TimeFormat(t, SubSeq(layout, n + 1, Len(layout)))
  IN  IF layout = << >> THEN << >>
      ELSE IF HasPrefix(layout, layoutZone) THEN strZ \o rest(6)
      ELSE IF HasPrefix(layout, layoutYear) THEN strYear \o rest(4)
      ELSE IF HasPrefix(layout, layoutMonth) THEN TwoDigits(1) \o rest(2)
      ELSE IF HasPrefix(layout, layoutDay) THEN TwoDigits(2) \o rest(2)
      ELSE IF HasPrefix(layout, layoutHour) THEN TwoDigits(15) \o rest(2)
      ELSE IF HasPrefix(layout, layoutMinute) THEN TwoDigits(4) \o rest(2)
      ELSE IF HasPrefix(layout, layoutSecond)
        THEN TwoDigits((t \div Second) % 60) \o rest(2)
      ELSE << Head(layout) >> \o rest(1)

\* fmt's %04d: at least 4 characters, zero-padded after the sign.
Fmt04d(n) ==
  IF n < 0 THEN << 45 >> \o Repeat(48, 3 - Len(Itoa(-n))) \o Itoa(-n)
  ELSE Repeat(48, 4 - Len(Itoa(n))) \o Itoa(n)

\* fmt's %-44s: the text, then spaces up to a width of 44.
FmtPad44(s) == s \o Repeat(32, 44 - Len(s))

\* fmt.Fprint of a value (and %v of a string).
Sprint(v) ==
  CASE v.t = "str" -> v.s
    [] v.t = "err" -> v.s
    [] v.t = "int" -> IF v.n < 0 THEN << 45 >> \o Itoa(-v.n) ELSE Itoa(v.n)
    [] v.t = "nan" -> strNaN
    [] OTHER -> strNil

(***************************************************************************)
(* The Human Formatter: TextFormatter and textFormatter                    *)
(***************************************************************************)

nocolor == 0
red == 31
green == 32
yellow == 33
blue == 34
gray == 37

\* TextFormatter.Build, the options object after the call: the defaults are
\* written into the caller's object.
TextBuildFactory(factory) ==
  LET f1 == IF ~factory.DisableTimestamp /\ factory.TimestampFormat = << >>
              THEN [factory EXCEPT !.TimestampFormat = DefaultTimestampFormat]
              ELSE factory
  IN  IF f1.QuoteCharacter = << >>
        THEN [f1 EXCEPT !.QuoteCharacter = strDoubleQuote]
        ELSE f1

\* TextFormatter.Build, the formatter returned: a copy of the options and the
\* color decision taken once.
TextBuildFormatter(factory, outIsTerminal, os) ==
  LET isColorTerminal == outIsTerminal /\ os # "windows"
      built == TextBuildFactory(factory)
  IN  [ kind |-> "text",
        settings |-> built,
        isColored |-> (built.ForceColors \/ isColorTerminal) /\ ~built.DisableColors ]

\* needsQuoting with '.' left out of the characters that need no quotes.
needsQuotingDot(f, text) ==
  IF f.settings.QuoteEmptyFields /\ Len(text) = 0 THEN TRUE
  ELSE \E i \in DOMAIN text :
         ~ (   (text[i] >= 97 /\ text[i] <= 122)
            \/ (text[i] >= 65 /\ text[i] <= 90)
            \/ (text[i] >= 48 /\ text[i] <= 57)
            \/ text[i] = 45 )

\* textFormatter.needsQuoting.
needsQuoting(f, text) ==
  IF f.settings.QuoteEmptyFields /\ Len(text) = 0 THEN TRUE
  ELSE \E i \in DOMAIN text :
         ~ (   (text[i] >= 97 /\ text[i] <= 122)
            \/ (text[i] >= 65 /\ text[i] <= 90)
            \/ (text[i] >= 48 /\ text[i] <= 57)
            \/ text[i] = 45 \/ text[i] = 46 )

\* textFormatter.appendValue: the buffer b after the value is written.
appendValue(f, b, value) ==
  CASE value.t = "str" ->
         IF ~needsQuoting(f, value.s) THEN b \o value.s
         ELSE b \o f.settings.QuoteCharacter \o Sprint(value) \o f.settings.QuoteCharacter
    [] value.t = "err" ->
         IF ~needsQuoting(f, value.s) THEN b \o value.s
         ELSE b \o f.settings.QuoteCharacter \o value.s \o f.settings.QuoteCharacter
    [] OTHER -> b \o Sprint(value)

\* textFormatter.appendKeyValue.
appendKeyValue(f, b, key, value) ==
  appendValue(f, b \o key \o << 61 >>, value) \o << 32 >>

\* The color of a level in printColored.
levelColorOf(level) ==
  CASE level = "DebugLevel" -> gray
    [] level = "WarnLevel" -> yellow
    [] level \in { "ErrorLevel", "FatalLevel", "PanicLevel" } -> red
    [] OTHER -> blue

\* "\x1b[%dm%s\x1b[0m": the text wrapped in the color's escape sequence.
Colorize(color, text) ==
  << ESC, 91 >> \o Itoa(color) \o << 109 >> \o text \o << ESC, 91, 48, 109 >>

RECURSIVE printColoredFields(_, _, _, _, _)
printColoredFields(f, b, data, keys, levelColor) ==
  IF keys = << >> THEN b
  ELSE printColoredFields(
         f,
         appendValue(f, b \o << 32 >> \o Colorize(levelColor, Head(keys)) \o << 61 >>,
                     MapGet(data, Head(keys))),
         data, Tail(keys), levelColor)

\* The relative timestamp counted from the instant the formatter was built.
RelativeBaseBuilt(base, built) == built

\* The instant the relative timestamp of printColored counts from.
RelativeBase(base, built) == base

\* textFormatter.printColored: the buffer b after the record is written.
\* base is the package's baseTimestamp, built the instant f was built.
printColored(f, b, entry, keys, base, built) ==
  LET levelColor == levelColorOf(entry.Level)
      levelText == SubSeq(ToUpper(LevelString(entry.Level)), 1, 4)
      head ==
        IF f.settings.DisableTimestamp
          THEN Colorize(levelColor, levelText) \o << 32 >>
               \o FmtPad44(entry.Message) \o << 32 >>
        ELSE IF ~f.settings.FullTimestamp
          THEN Colorize(levelColor, levelText) \o << 91 >>
               \o Fmt04d(TruncDiv(entry.Time - RelativeBase(base, built), Second))
               \o << 93, 32 >> \o FmtPad44(entry.Message) \o << 32 >>
        ELSE Colorize(levelColor, levelText) \o << 91 >>
               \o TimeFormat(entry.Time, f.settings.TimestampFormat)
               \o << 93, 32 >> \o FmtPad44(entry.Message) \o << 32 >>
  IN  printColoredFields(f, b \o head, entry.Data, keys, levelColor)

RECURSIVE appendFields(_, _, _, _)
appendFields(f, b, data, keys) ==
  IF keys = << >> THEN b
  ELSE appendFields(f, appendKeyValue(f, b, Head(keys), MapGet(data, Head(keys))),
                    data, Tail(keys))

\* The msg field written whatever the message is.
WritesMsgAlways(entry) == TRUE

\* Whether the non-colored record carries the msg field.
WritesMsg(entry) == entry.Message # << >>

\* The non-colored branch of textFormatter.Format.
printPlain(f, b, entry, keys) ==
  LET b1 == IF ~f.settings.DisableTimestamp
              THEN appendKeyValue(f, b, FieldKeyTime,
                     StrVal(TimeFormat(entry.Time, f.settings.TimestampFormat)))
              ELSE b
      b2 == appendKeyValue(f, b1, FieldKeyLevel, StrVal(LevelString(entry.Level)))
      b3 == IF WritesMsg(entry)
              THEN appendKeyValue(f, b2, FieldKeyMsg, StrVal(entry.Message))
              ELSE b2
  IN  appendFields(f, b3, entry.Data, keys)

\* The color decision taken again at every call, from the options object and
\* the sink as they are then.
UsesColorNow(f, factory, outIsTerminal, os) ==
  (factory.ForceColors \/ (outIsTerminal /\ os # "windows")) /\ ~factory.DisableColors

\* Whether a call of Format by f takes the colored branch.
UsesColor(f, factory, outIsTerminal, os) == f.isColored

\* The event's buffer emptied before it is written into.
AcquireBufferReset(entry) == << >>

\* The buffer Format writes into: the event's own, as it is, or a fresh one.
AcquireBuffer(entry) == IF entry.Buffer = None THEN << >> ELSE entry.Buffer

\* textFormatter.Format from the buffer on: the content of the buffer when
\* Format returns, which is the bytes returned. entry is the event after
\* prefixFieldClashes, keys the keys collected from it.
textRender(f, entry, keys, base, built, factory, outIsTerminal, os) ==
  LET b == AcquireBuffer(entry)
      body == IF UsesColor(f, factory, outIsTerminal, os)
                THEN printColored(f, b, entry, keys, base, built)
                ELSE printPlain(f, b, entry, keys)
  IN  body \o << LF >>

RECURSIVE SortStrings(_)
\* sort.Strings over a set of keys.
SortStrings(ks) ==
  IF ks = {} THEN << >>
  ELSE LET m == CHOOSE k \in ks : \A o \in ks \ {k} : StrLess(k, o)
       IN  << m >> \o SortStrings(ks \ {m})

\* Every order in which ranging over a map with these keys can yield them.
KeyOrders(ks) ==
  { q \in [1..Cardinality(ks) -> ks] : \A i, j \in DOMAIN q : i # j => q[i] # q[j] }

\* The slice keys of textFormatter.Format: the orders the loop and the sort
\* can leave it in.
FormatKeys(f, data) ==
  IF ~f.settings.DisableSorting THEN { SortStrings(DOMAIN data) }
  ELSE KeyOrders(DOMAIN data)

(***************************************************************************)
(* The Machine Formatter: JSONFormatter and jsonFormatter                  *)
(***************************************************************************)

\* FieldMap.resolve.
resolve(fieldMap, key) == IF key \in DOMAIN fieldMap THEN fieldMap[key] ELSE key

\* JSONFormatter.Build.
JSONBuildFormatter(factory) ==
  [ kind |-> "json",
    timestampFormat |->
      IF ~factory.DisableTimestamp /\ factory.TimestampFormat = << >>
        THEN DefaultTimestampFormat ELSE factory.TimestampFormat,
    keyTime |->
      IF factory.DisableTimestamp THEN << >> ELSE resolve(factory.FieldMap, FieldKeyTime),
    keyLevel |-> resolve(factory.FieldMap, FieldKeyLevel),
    keyMsg |-> resolve(factory.FieldMap, FieldKeyMsg) ]

\* The loop body of jsonFormatter.Format: what is stored for a value.
jsonCopyValue(v) == IF v.t = "err" THEN StrVal(v.s) ELSE v

\* The reserved fields written by jsonFormatter.Format after the clash
\* resolution, in the order of the code.
jsonReserved(f, data, entry) ==
  LET d1 == IF f.keyTime # << >>
              THEN MapSet(data, f.keyTime,
                          StrVal(TimeFormat(entry.Time, f.timestampFormat)))
              ELSE data
      d2 == MapSet(d1, f.keyMsg, StrVal(entry.Message))
  IN  MapSet(d2, f.keyLevel, StrVal(LevelString(entry.Level)))

\* The map jsonFormatter.Format hands to json.Marshal.
jsonData(f, entry) ==
  jsonReserved(f,
               prefixFieldClashes([k \in DOMAIN entry.Data |-> jsonCopyValue(entry.Data[k])]),
               entry)

HexDigit(n) == IF n < 10 THEN 48 + n ELSE 87 + n

\* encoding/json, one character of a string.
JSONEscape(c) ==
  CASE c = 34 -> << 92, 34 >>
    [] c = 92 -> << 92, 92 >>
    [] c = 10 -> << 92, 110 >>
    [] c = 13 -> << 92, 114 >>
    [] c = 9 -> << 92, 116 >>
    [] c < 32 \/ c \in { 60, 62, 38 } ->
         << 92, 117, 48, 48, HexDigit(c \div 16), HexDigit(c % 16) >>
    [] OTHER -> << c >>

RECURSIVE JSONEscapeAll(_)
JSONEscapeAll(s) == IF s = << >> THEN << >> ELSE JSONEscape(Head(s)) \o JSONEscapeAll(Tail(s))

\* encoding/json, a string.
JSONString(s) == << 34 >> \o JSONEscapeAll(s) \o << 34 >>

\* encoding/json, a value that can be encoded. An error value has no
\* exported fields and is encoded as an empty object.
JSONValue(v) ==
  CASE v.t = "str" -> JSONString(v.s)
    [] v.t = "int" -> Sprint(v)
    [] v.t = "err" -> << 123, 125 >>
    [] OTHER -> strNull

RECURSIVE JSONMembers(_, _)
JSONMembers(data, keys) ==
  IF keys = << >> THEN << >>
  ELSE JSONString(Head(keys)) \o << 58 >> \o JSONValue(data[Head(keys)])
       \o (IF Tail(keys) = << >> THEN << >> ELSE << 44 >>)
       \o JSONMembers(data, Tail(keys))

\* The values json.Marshal rejects.
Unsupported(v) == v.t = "nan"

\* json.Marshal of a map: an object with the keys sorted, or the error of the
\* first value that cannot be encoded.
Marshal(data) ==
  IF \E k \in DOMAIN data : Unsupported(data[k])
    THEN [ bytes |-> << >>,
           err |-> strUnsupported ]
    ELSE [ bytes |-> << 123 >> \o JSONMembers(data, SortStrings(DOMAIN data)) \o << 125 >>,
           err |-> << >> ]

\* jsonFormatter.Format appending the newline before it looks at the error.
jsonReturnNewline(m) ==
  [ bytes |-> m.bytes \o << LF >>,
    err |-> IF m.err # << >> THEN strFailedToMarshal \o m.err ELSE << >> ]

\* What jsonFormatter.Format returns for the result of json.Marshal.
jsonReturn(m) ==
  IF m.err # << >>
    THEN [ bytes |-> << >>,
           err |-> strFailedToMarshal \o m.err ]
    ELSE [ bytes |-> m.bytes \o << LF >>, err |-> << >> ]

\* jsonFormatter.Format.
jsonFormat(f, entry) == jsonReturn(Marshal(jsonData(f, entry)))

(***************************************************************************)
(* Decoding a record of the Machine Formatter (the reader's side)          *)
(***************************************************************************)

Bad == [ok |-> FALSE, val |-> << >>, next |-> 0]

HexValue(c) == IF c >= 48 /\ c <= 57 THEN c - 48 ELSE c - 87

RECURSIVE ScanString(_, _, _)
\* The string whose opening quote precedes position i: its text and the
\* position after its closing quote.
ScanString(s, i, acc) ==
  IF i > Len(s) THEN Bad
  ELSE IF s[i] = 34 THEN [ok |-> TRUE, val |-> acc, next |-> i + 1]
  ELSE IF s[i] # 92 THEN ScanString(s, i + 1, Append(acc, s[i]))
  ELSE IF i + 1 > Len(s) THEN Bad
  ELSE IF s[i + 1] \in { 34, 92 } THEN ScanString(s, i + 2, Append(acc, s[i + 1]))
  ELSE IF s[i + 1] = 110 THEN ScanString(s, i + 2, Append(acc, 10))
  ELSE IF s[i + 1] = 114 THEN ScanString(s, i + 2, Append(acc, 13))
  ELSE IF s[i + 1] = 116 THEN ScanString(s, i + 2, Append(acc, 9))
  ELSE IF s[i + 1] = 117 /\ i + 5 <= Len(s)
    THEN ScanString(s, i + 6,
           Append(acc, 4096 * HexValue(s[i + 2]) + 256 * HexValue(s[i + 3])
                       + 16 * HexValue(s[i + 4]) + HexValue(s[i + 5])))
  ELSE Bad

RECURSIVE ScanNumber(_, _, _)
ScanNumber(s, i, acc) ==
  IF i <= Len(s) /\ s[i] >= 48 /\ s[i] <= 57
    THEN ScanNumber(s, i + 1, 10 * acc + (s[i] - 48))
    ELSE [ok |-> TRUE, val |-> IntVal(acc), next |-> i]

\* The JSON value that starts at position i.
ScanValue(s, i) ==
  IF i > Len(s) THEN Bad
  ELSE IF s[i] = 34
    THEN LET r == ScanString(s, i + 1, << >>)
         IN  IF r.ok THEN [ok |-> TRUE, val |-> StrVal(r.val), next |-> r.next] ELSE Bad
  ELSE IF s[i] >= 48 /\ s[i] <= 57 THEN ScanNumber(s, i, 0)
  ELSE IF SubSeq(s, i, i + 3) = strNull
    THEN [ok |-> TRUE, val |-> NilVal, next |-> i + 4]
  ELSE IF SubSeq(s, i, i + 1) = << 123, 125 >>
    THEN [ok |-> TRUE, val |-> [t |-> "obj", s |-> << >>, n |-> 0], next |-> i + 2]
  ELSE Bad

RECURSIVE ScanMembers(_, _, _)
\* The members of an object from position i on, added to acc (a repeated key
\* keeps its last value); the object must be followed by a newline only.
ScanMembers(s, i, acc) ==
  IF i > Len(s) \/ s[i] # 34 THEN [ok |-> FALSE, map |-> acc]
  ELSE LET k == ScanString(s, i + 1, << >>)
       IN  IF ~k.ok \/ k.next > Len(s) \/ s[k.next] # 58 THEN [ok |-> FALSE, map |-> acc]
           ELSE LET v == ScanValue(s, k.next + 1)
                IN  IF ~v.ok \/ v.next > Len(s) THEN [ok |-> FALSE, map |-> acc]
                    ELSE IF s[v.next] = 44
                      THEN ScanMembers(s, v.next + 1, MapSet(acc, k.val, v.val))
                    ELSE [ ok |-> s[v.next] = 125
                                  /\ SubSeq(s, v.next + 1, Len(s)) = << LF >>,
                           map |-> MapSet(acc, k.val, v.val) ]

\* json.Unmarshal of one record into a map.
Decode(s) ==
  IF Len(s) < 3 \/ s[1] # 123 THEN [ok |-> FALSE, map |-> << >>]
  ELSE IF s = << 123, 125, LF >> THEN [ok |-> TRUE, map |-> << >>]
  ELSE ScanMembers(s, 2, << >>)

(***************************************************************************)
(* The bounded universe of options and events                              *)
(***************************************************************************)

\* The largest number of attributes of an event.
MaxAttrs == 2

\* The last instant of the clock, in ticks.
MaxTime == 3

\* The longest event buffer a caller hands to Format again, in bytes.
MaxBuffer == 40

SecondsLayout == layoutSecond

vSafe == StrVal(S(<< "a", ".", "B", "-", "1" >>))
vUnsafe == StrVal(S(<< "a", " ", "\"", "b" >>))
vEmpty == StrVal(<< >>)
vErr == ErrVal(S(<< "e", "!" >>))
vInt == IntVal(7)

strSingleQuote == S(<< "'" >>)
kPlain == S(<< "a" >>)
kAt == S(<< "@", "t" >>)
kAtLevel == S(<< "@", "l" >>)
kFieldsTime == FieldsPrefix \o FieldKeyTime

\* The attributes an event of the model can carry: for each key, the values
\* it can have.
AttrValues ==
  [ k \in { FieldKeyTime, FieldKeyMsg, FieldKeyLevel, kFieldsTime, kAt, kPlain } |->
      CASE k = FieldKeyTime -> { vSafe, vErr }
        [] k = FieldKeyMsg -> { vUnsafe }
        [] k = FieldKeyLevel -> { vInt }
        [] k = kFieldsTime -> { vEmpty }
        [] k = kAt -> { vSafe }
        [] OTHER -> { vSafe, vUnsafe, vEmpty, vErr, vInt, NaNVal } ]

\* Every attribute map with at most n of these attributes.
DataMaps(n) ==
  UNION { { d \in [ks -> UNION { AttrValues[k] : k \in ks }] :
              \A k \in ks : d[k] \in AttrValues[k] } :
          ks \in { x \in SUBSET DOMAIN AttrValues : Cardinality(x) <= n } }

Messages == { << >>, S(<< "h", "i" >>) }

\* The events a caller creates at instant t.
Events(t, levels, messages, maps, buffers) ==
  [ Time : {t}, Level : levels, Message : messages, Data : maps, Buffer : buffers ]

\* The option objects of the Human Formatter.
TextOptions(force, disable, stamps, full, formats, sorts, empties, quotes) ==
  [ kind : {"text"}, ForceColors : force, DisableColors : disable,
    DisableTimestamp : stamps, FullTimestamp : full, TimestampFormat : formats,
    DisableSorting : sorts, QuoteEmptyFields : empties, QuoteCharacter : quotes ]

\* The field maps of the model: none, a renamed time key, and renamed level
\* and msg keys.
FieldMaps ==
  { << >>,
    [k \in {FieldKeyTime} |-> kAt],
    [k \in {FieldKeyLevel, FieldKeyMsg} |-> IF k = FieldKeyLevel THEN kAtLevel ELSE kPlain] }

\* The option objects of the Machine Formatter.
JSONOptions ==
  [ kind : {"json"}, TimestampFormat : { << >>, SecondsLayout },
    DisableTimestamp : BOOLEAN, FieldMap : FieldMaps ]

FmtIds == { 1 }
EntIds == { 1, 2 }
Goroutines == { 1, 2 }

(***************************************************************************)
(* The state                                                               *)
(***************************************************************************)

VARIABLES
  baseTimestamp,  \* the package variable set by init()
  now,            \* the clock
  goos,           \* runtime.GOOS
  isTerminal,     \* IsTerminal(out) for the sink handed to Build
  factory,        \* the caller's options object (*TextFormatter or *JSONFormatter)
  fmts,           \* the built formatters (None: not built yet)
  built,          \* for each built formatter: the options as they were handed
                  \* to Build, the instant of the call and whether the sink
                  \* was a terminal then
  entries,        \* the events (*Entry), None: not created
  orig,           \* each event as its caller created it
  pc,             \* where each goroutine is in Format
  loc,            \* the locals of each goroutine's call of Format
  ret,            \* what the last finished call of each goroutine returned
  crashed         \* the runtime has aborted the process

vars ==
  << baseTimestamp, now, goos, isTerminal, factory, fmts, built, entries, orig,
     pc, loc, ret, crashed >>

\* Nothing is in flight and nothing is built.
InitCommon ==
  /\ now = 0
  /\ baseTimestamp = now
  /\ fmts = [i \in FmtIds |-> None]
  /\ built = [i \in FmtIds |-> None]
  /\ pc = [g \in Goroutines |-> "idle"]
  /\ loc = [g \in Goroutines |-> None]
  /\ ret = [g \in Goroutines |-> None]
  /\ crashed = FALSE

(***************************************************************************)
(* Operations                                                              *)
(***************************************************************************)

\* textFormatter.Format without its call of prefixFieldClashes.
textClashDataSkipped(data) == data

\* The attribute map textFormatter.Format resolves clashes in: the event's own.
textClashData(data) == prefixFieldClashes(data)

\* TextFormatter.Build(out, minimumLevel) into slot i.
TextBuild(i) ==
  /\ ~crashed
  /\ factory.kind = "text"
  /\ fmts[i] = None
  /\ \A j \in FmtIds : j < i => fmts[j] # None
  /\ fmts' = [fmts EXCEPT ![i] = TextBuildFormatter(factory, isTerminal, goos)]
  /\ factory' = TextBuildFactory(factory)
  /\ built' = [built EXCEPT ![i] = [from |-> factory, at |-> now, terminal |-> isTerminal]]
  /\ ret' = [g \in Goroutines |-> None]
  /\ UNCHANGED << baseTimestamp, now, goos, isTerminal, entries, orig, pc, loc, crashed >>

\* JSONFormatter.Build(out, minimumLevel) into slot i.
JSONBuild(i) ==
  /\ ~crashed
  /\ factory.kind = "json"
  /\ fmts[i] = None
  /\ \A j \in FmtIds : j < i => fmts[j] # None
  /\ fmts' = [fmts EXCEPT ![i] = JSONBuildFormatter(factory)]
  /\ built' = [built EXCEPT ![i] = [from |-> factory, at |-> now, terminal |-> isTerminal]]
  /\ ret' = [g \in Goroutines |-> None]
  /\ UNCHANGED << baseTimestamp, now, goos, isTerminal, factory, entries, orig,
                  pc, loc, crashed >>

\* The record of a finished call: the formatter, the event and its value when
\* Format was called, and the two results.
Returned(i, e, arg, bytes, err) ==
  [f |-> i, e |-> e, arg |-> arg, bytes |-> bytes, err |-> err]

\* textFormatter.Format(entry), goroutine g, formatter i, event e, run without
\* interruption.
TextFormat(g, i, e) ==
  /\ ~crashed
  /\ pc[g] = "idle"
  /\ fmts[i] # None /\ fmts[i].kind = "text"
  /\ entries[e] # None
  /\ entries[e].Buffer # None => Len(entries[e].Buffer) <= MaxBuffer
  /\ LET ent == [entries[e] EXCEPT !.Data = textClashData(entries[e].Data)]
     IN  \E keys \in FormatKeys(fmts[i], ent.Data) :
           LET out == textRender(fmts[i], ent, keys, baseTimestamp, built[i].at,
                                 factory, isTerminal, goos)
           IN  /\ entries' =
                    [entries EXCEPT
                       ![e] = [ent EXCEPT !.Buffer = IF @ = None THEN None ELSE out]]
               /\ ret' = [ret EXCEPT ![g] = Returned(i, e, entries[e], out, << >>)]
  /\ UNCHANGED << baseTimestamp, now, goos, isTerminal, factory, fmts, built, orig,
                  pc, loc, crashed >>

\* jsonFormatter.Format(entry), goroutine g, formatter i, event e, run without
\* interruption.
JSONFormat(g, i, e) ==
  /\ ~crashed
  /\ pc[g] = "idle"
  /\ fmts[i] # None /\ fmts[i].kind = "json"
  /\ entries[e] # None
  /\ LET r == jsonFormat(fmts[i], entries[e])
     IN  ret' = [ret EXCEPT ![g] = Returned(i, e, entries[e], r.bytes, r.err)]
  /\ UNCHANGED << baseTimestamp, now, goos, isTerminal, factory, fmts, built, entries,
                  orig, pc, loc, crashed >>

(***************************************************************************)
(* Spec: one goroutine formats one event, again and again, with one        *)
(* formatter                                                               *)
(***************************************************************************)

Init ==
  /\ InitCommon
  /\ goos = "linux"
  /\ isTerminal = FALSE
  /\ factory \in
       TextOptions(BOOLEAN, {FALSE}, BOOLEAN, {FALSE}, { << >> }, BOOLEAN, BOOLEAN,
                   { << >>, strSingleQuote })
       \cup JSONOptions
  /\ \E ev \in Events(0, { "ErrorLevel" }, Messages, DataMaps(MaxAttrs), { None }) :
       /\ entries = [e \in EntIds |-> IF e = 1 THEN ev ELSE None]
       /\ orig = entries

Next ==
  \/ TextBuild(1)
  \/ JSONBuild(1)
  \/ TextFormat(1, 1, 1)
  \/ JSONFormat(1, 1, 1)

Spec == Init /\ [][Next]_vars

(***************************************************************************)
(* SpecCaller: one goroutine logs event after event through a Human        *)
(* Formatter, with a buffer it attaches to every event, and goes on         *)
(* changing the options object the formatter was built from                *)
(***************************************************************************)

InitCaller ==
  /\ InitCommon
  /\ goos \in { "linux", "windows" }
  /\ isTerminal \in BOOLEAN
  /\ factory \in TextOptions(BOOLEAN, BOOLEAN, {FALSE}, BOOLEAN, { << >> }, {FALSE}, {FALSE},
                             { << >> })
  /\ \E ev \in Events(0, { "InfoLevel" }, Messages, { << >> }, { None, << >> }) :
       /\ entries = [e \in EntIds |-> IF e = 1 THEN ev ELSE None]
       /\ orig = entries

\* The caller sets or clears ForceColors in its options object.
ToggleForceColors ==
  /\ fmts[1] # None
  /\ factory' = [factory EXCEPT !.ForceColors = ~@]
  /\ ret' = [g \in Goroutines |-> None]
  /\ UNCHANGED << baseTimestamp, now, goos, isTerminal, fmts, built, entries, orig,
                  pc, loc, crashed >>

\* The caller sets or clears DisableColors in its options object.
ToggleDisableColors ==
  /\ fmts[1] # None
  /\ factory' = [factory EXCEPT !.DisableColors = ~@]
  /\ ret' = [g \in Goroutines |-> None]
  /\ UNCHANGED << baseTimestamp, now, goos, isTerminal, fmts, built, entries, orig,
                  pc, loc, crashed >>

\* The sink becomes a terminal, or stops being one.
ToggleTerminal ==
  /\ fmts[1] # None
  /\ isTerminal' = ~isTerminal
  /\ ret' = [g \in Goroutines |-> None]
  /\ UNCHANGED << baseTimestamp, now, goos, factory, fmts, built, entries, orig,
                  pc, loc, crashed >>

\* Time passes.
Tick ==
  /\ now < MaxTime
  /\ now' = now + 1
  /\ ret' = [g \in Goroutines |-> None]
  /\ UNCHANGED << baseTimestamp, goos, isTerminal, factory, fmts, built, entries, orig,
                  pc, loc, crashed >>

\* The caller creates the next event, now, and attaches the buffer of the
\* last one to it, as it is or emptied.
NextEntry ==
  /\ entries[1].Time < now
  /\ \E reset \in BOOLEAN :
       LET ev == [ entries[1] EXCEPT
                     !.Time = now,
                     !.Buffer = IF @ = None \/ ~reset THEN @ ELSE << >> ]
       IN  /\ entries' = [entries EXCEPT ![1] = ev]
           /\ orig' = [orig EXCEPT ![1] = ev]
  /\ ret' = [g \in Goroutines |-> None]
  /\ UNCHANGED << baseTimestamp, now, goos, isTerminal, factory, fmts, built,
                  pc, loc, crashed >>

NextCaller ==
  \/ \E i \in FmtIds : TextBuild(i)
  \/ \E i \in FmtIds : TextFormat(1, i, 1)
  \/ ToggleForceColors
  \/ ToggleDisableColors
  \/ ToggleTerminal
  \/ Tick
  \/ NextEntry

SpecCaller == InitCaller /\ [][NextCaller]_vars

(***************************************************************************)
(* SpecConc: two goroutines call Format of one built formatter, each on an *)
(* event of its choice, and their steps interleave. Format takes no lock,  *)
(* so a write to an attribute map that another call is still using is a    *)
(* data race: the Go runtime either lets it pass or aborts the process     *)
(* ("fatal error: concurrent map writes").                                 *)
(***************************************************************************)

\* The attribute maps of the events two goroutines share.
ConcMaps ==
  { d \in DataMaps(MaxAttrs) : DOMAIN d \subseteq { FieldKeyTime, FieldKeyLevel } }

InitConc ==
  /\ InitCommon
  /\ goos = "linux"
  /\ isTerminal = FALSE
  /\ factory \in
       TextOptions({FALSE}, {FALSE}, {TRUE}, {FALSE}, { << >> }, BOOLEAN, {FALSE}, { << >> })
       \cup { o \in JSONOptions :
                o.FieldMap = << >> /\ o.DisableTimestamp /\ o.TimestampFormat = << >> }
  /\ entries \in
       [EntIds -> Events(0, { "InfoLevel" }, { << >> }, ConcMaps, { None })]
  /\ orig = entries

\* Goroutine g is in a call of Format that still has the attribute map of
\* event e to read or to write.
UsesMap(g, e) ==
  IF pc[g] \in { "clash", "keys", "render", "copy" } THEN loc[g].e = e ELSE FALSE

\* A write by g to the attribute map of e races with another call.
Races(g, e) == \E h \in Goroutines \ {g} : UsesMap(h, e)

\* Goroutine g calls Format(entry) of formatter i for event e. The buffer
\* attached to an event belongs to one call at a time.
Call(g, i, e) ==
  /\ ~crashed
  /\ pc[g] = "idle"
  /\ fmts[i] # None
  /\ entries[e].Buffer # None =>
       /\ Len(entries[e].Buffer) <= MaxBuffer
       /\ \A h \in Goroutines \ {g} : IF pc[h] = "idle" THEN TRUE ELSE loc[h].e # e
  /\ pc' = [pc EXCEPT ![g] = IF fmts[i].kind = "text" THEN "clash" ELSE "copy"]
  /\ loc' = [loc EXCEPT ![g] = [f |-> i, e |-> e, arg |-> entries[e], name |-> 1,
                                half |-> "insert", keys |-> << >>, data |-> << >>]]
  /\ ret' = [ret EXCEPT ![g] = None]
  /\ UNCHANGED << baseTimestamp, now, goos, isTerminal, factory, fmts, built, entries,
                  orig, crashed >>

\* The position of g after it is done with reserved name number n.
AfterName(g, n) ==
  IF n < Len(ReservedNames)
    THEN /\ pc' = pc
         /\ loc' = [loc EXCEPT ![g].name = n + 1, ![g].half = "insert"]
    ELSE /\ pc' = [pc EXCEPT ![g] = "keys"]
         /\ loc' = loc

\* prefixFieldClashes(entry.Data) in textFormatter.Format, one reserved name,
\* first half: the lookup, and the store under the prefixed key.
ClashInsert(g) ==
  /\ ~crashed
  /\ pc[g] = "clash" /\ loc[g].half = "insert"
  /\ LET e == loc[g].e
         name == ReservedNames[loc[g].name]
     IN  IF name \in DOMAIN entries[e].Data
           THEN \/ /\ entries' = [entries EXCEPT ![e].Data = prefixClashInsert(@, name)]
                   /\ loc' = [loc EXCEPT ![g].half = "delete"]
                   /\ UNCHANGED << pc, crashed >>
                \/ /\ Races(g, e)
                   /\ crashed' = TRUE
                   /\ UNCHANGED << entries, pc, loc >>
           ELSE /\ AfterName(g, loc[g].name)
                /\ UNCHANGED << entries, crashed >>
  /\ UNCHANGED << baseTimestamp, now, goos, isTerminal, factory, fmts, built, orig, ret >>

\* prefixFieldClashes(entry.Data), one reserved name, second half: the
\* attribute is deleted from its reserved key.
ClashDelete(g) ==
  /\ ~crashed
  /\ pc[g] = "clash" /\ loc[g].half = "delete"
  /\ LET e == loc[g].e
         name == ReservedNames[loc[g].name]
     IN  \/ /\ entries' = [entries EXCEPT ![e].Data = prefixClashDelete(@, name)]
            /\ AfterName(g, loc[g].name)
            /\ UNCHANGED crashed
         \/ /\ Races(g, e)
            /\ crashed' = TRUE
            /\ UNCHANGED << entries, pc, loc >>
  /\ UNCHANGED << baseTimestamp, now, goos, isTerminal, factory, fmts, built, orig, ret >>

\* textFormatter.Format: the keys are collected and sorted.
CollectKeys(g) ==
  /\ ~crashed
  /\ pc[g] = "keys"
  /\ \E keys \in FormatKeys(fmts[loc[g].f], entries[loc[g].e].Data) :
       loc' = [loc EXCEPT ![g].keys = keys]
  /\ pc' = [pc EXCEPT ![g] = "render"]
  /\ UNCHANGED << baseTimestamp, now, goos, isTerminal, factory, fmts, built, entries,
                  orig, ret, crashed >>

\* textFormatter.Format: the record is written into the buffer and returned.
Render(g) ==
  /\ ~crashed
  /\ pc[g] = "render"
  /\ LET i == loc[g].f
         e == loc[g].e
         out == textRender(fmts[i], entries[e], loc[g].keys, baseTimestamp, built[i].at,
                           factory, isTerminal, goos)
     IN  /\ entries' = [entries EXCEPT ![e].Buffer = IF @ = None THEN None ELSE out]
         /\ ret' = [ret EXCEPT ![g] = Returned(i, e, loc[g].arg, out, << >>)]
  /\ pc' = [pc EXCEPT ![g] = "idle"]
  /\ loc' = [loc EXCEPT ![g] = None]
  /\ UNCHANGED << baseTimestamp, now, goos, isTerminal, factory, fmts, built, orig, crashed >>

\* jsonFormatter.Format: the attributes are copied into a map of the call's own.
CopyData(g) ==
  /\ ~crashed
  /\ pc[g] = "copy"
  /\ loc' = [loc EXCEPT ![g].data =
               [k \in DOMAIN entries[loc[g].e].Data |->
                  jsonCopyValue(entries[loc[g].e].Data[k])]]
  /\ pc' = [pc EXCEPT ![g] = "marshal"]
  /\ UNCHANGED << baseTimestamp, now, goos, isTerminal, factory, fmts, built, entries,
                  orig, ret, crashed >>

\* jsonFormatter.Format: clashes are resolved in the copy, the reserved fields
\* are written and the map is serialized and returned.
MarshalData(g) ==
  /\ ~crashed
  /\ pc[g] = "marshal"
  /\ LET i == loc[g].f
         e == loc[g].e
         r == jsonReturn(Marshal(jsonReserved(fmts[i], prefixFieldClashes(loc[g].data),
                                              entries[e])))
     IN  ret' = [ret EXCEPT ![g] = Returned(i, e, loc[g].arg, r.bytes, r.err)]
  /\ pc' = [pc EXCEPT ![g] = "idle"]
  /\ loc' = [loc EXCEPT ![g] = None]
  /\ UNCHANGED << baseTimestamp, now, goos, isTerminal, factory, fmts, built, entries,
                  orig, crashed >>

NextConc ==
  \/ TextBuild(1)
  \/ JSONBuild(1)
  \/ \E g \in Goroutines, e \in EntIds : Call(g, 1, e)
  \/ \E g \in Goroutines : ClashInsert(g)
  \/ \E g \in Goroutines : ClashDelete(g)
  \/ \E g \in Goroutines : CollectKeys(g)
  \/ \E g \in Goroutines : Render(g)
  \/ \E g \in Goroutines : CopyData(g)
  \/ \E g \in Goroutines : MarshalData(g)

SpecConc == InitConc /\ [][NextConc]_vars

(***************************************************************************)
(* What the formatted records are checked against                          *)
(***************************************************************************)

\* The finished calls of the Human and of the Machine Formatter.
TextCalls == { g \in Goroutines : ret[g] # None /\ fmts[ret[g].f].kind = "text" }
JSONCalls == { g \in Goroutines : ret[g] # None /\ fmts[ret[g].f].kind = "json" }

\* The characters a value is made of when it needs no quotes.
SafeChars == (97..122) \cup (65..90) \cup (48..57) \cup { 45, 46 }

\* A text value as the quoting rule wants it written.
ExpectedText(quoteEmpty, quote, text) ==
  IF (\A i \in DOMAIN text : text[i] \in SafeChars) /\ ~(quoteEmpty /\ text = << >>)
    THEN text
    ELSE quote \o text \o quote

\* The quote character of formatter i: the configured one, " when none was.
ExpectedQuote(i) ==
  IF built[i].from.QuoteCharacter = << >> THEN << 34 >> ELSE built[i].from.QuoteCharacter

\* A value as the Human Formatter i is expected to write it.
ExpectedValue(i, v) ==
  IF v.t \in { "str", "err" }
    THEN ExpectedText(built[i].from.QuoteEmptyFields, ExpectedQuote(i), v.s)
    ELSE Sprint(v)

\* The timestamp of instant t in the configured layout (RFC 3339 when none
\* was configured, else the seconds).
ExpectedTime(t, layout) ==
  LET ss == << 48 + (((t \div Second) \div 10) % 10), 48 + ((t \div Second) % 10) >>
  IN  IF layout = << >>
        THEN S(<< "2", "0", "2", "4", "-", "0", "1", "-", "0", "2", "T",
                  "1", "5", ":", "0", "4", ":" >>) \o ss \o << 90 >>
        ELSE ss

\* The non-colored record b has the field key=val.
PlainField(b, key, val) ==
  \/ HasPrefix(b, key \o << 61 >> \o val \o << 32 >>)
  \/ Contains(b, << 32 >> \o key \o << 61 >> \o val \o << 32 >>)

\* The non-colored record b has a field with this key.
PlainKey(b, key) ==
  HasPrefix(b, key \o << 61 >>) \/ Contains(b, << 32 >> \o key \o << 61 >>)

\* The colored record b has the attribute key=val.
ColoredField(b, key, val) ==
  \E after \in { << 32 >>, << LF >> } :
    Contains(b, << 32, ESC, 91, 51 >>) /\
    \E c \in { red, yellow, blue, gray } :
      Contains(b, << 32 >> \o << ESC, 91 >> \o Itoa(c) \o << 109 >> \o key
                  \o << ESC, 91, 48, 109, 61 >> \o val \o after)

\* An attribute value as a reader of the Machine Formatter's record gets it.
Decoded(v) == IF v.t = "err" THEN StrVal(v.s) ELSE v

\* The value a reserved field must have for the event ev.
ReservedValue(name, ev, layout) ==
  CASE name = FieldKeyTime -> ExpectedTime(ev.Time, layout)
    [] name = FieldKeyMsg -> ev.Message
    [] OTHER -> LevelString(ev.Level)

DefaultNames == { FieldKeyTime, FieldKeyLevel, FieldKeyMsg }

\* C1 holds of the call r for the reserved name: the record has the reserved
\* field with its value and the attribute under the prefixed key.
C1Text(r, name) ==
  LET i == r.f
      orig0 == ExpectedValue(i, r.arg.Data[name])
      resv == ExpectedValue(i, StrVal(ReservedValue(name, r.arg, built[i].from.TimestampFormat)))
  IN  IF fmts[i].isColored
        THEN ColoredField(r.bytes, FieldsPrefix \o name, orig0)
             /\ PlainField(r.bytes, name, resv)
        ELSE PlainField(r.bytes, FieldsPrefix \o name, orig0)
             /\ PlainField(r.bytes, name, resv)

C1JSON(r, name) ==
  LET d == Decode(r.bytes)
  IN  /\ d.ok
      /\ name \in DOMAIN d.map
      /\ d.map[name] = StrVal(ReservedValue(name, r.arg, built[r.f].from.TimestampFormat))
      /\ (FieldsPrefix \o name) \in DOMAIN d.map
      /\ d.map[FieldsPrefix \o name] = Decoded(r.arg.Data[name])

\* C1 (as stated): for every event with an attribute named "time", "level"
\* or "msg", the record of the Machine Formatter with the default field map
\* and the record of the Human Formatter contain the reserved field with its
\* correct value and an entry "fields.<name>" with the attribute's value.
C1_Original ==
  /\ \A g \in TextCalls : \A name \in DefaultNames \cap DOMAIN ret[g].arg.Data :
       C1Text(ret[g], name)
  /\ \A g \in JSONCalls : \A name \in DefaultNames \cap DOMAIN ret[g].arg.Data :
       built[ret[g].f].from.FieldMap = << >> => C1JSON(ret[g], name)

\* Whether the formatter of call r writes the reserved field for r's event as
\* a key/value pair.
C1Writes(r, name) ==
  LET o == built[r.f].from
  IN  /\ name = FieldKeyTime => ~o.DisableTimestamp
      /\ o.kind = "text" => ~fmts[r.f].isColored
      /\ (o.kind = "text" /\ name = FieldKeyMsg) => r.arg.Message # << >>

\* C1 (amended): whenever Format succeeds on such an event, the record has
\* the entry "fields.<name>" with the attribute's value, and it has the
\* reserved field with its correct value unless the formatter writes no such
\* field for the event: no time field when timestamps are disabled, no msg
\* field in the Human Formatter when the message is empty, and no key/value
\* reserved fields at all in the Human Formatter's colored records.
C1_Amended ==
  /\ \A g \in TextCalls : \A name \in DefaultNames \cap DOMAIN ret[g].arg.Data :
       LET r == ret[g]
           orig0 == ExpectedValue(r.f, r.arg.Data[name])
           resv == ExpectedValue(r.f,
                     StrVal(ReservedValue(name, r.arg, built[r.f].from.TimestampFormat)))
       IN  /\ IF fmts[r.f].isColored
                THEN ColoredField(r.bytes, FieldsPrefix \o name, orig0)
                ELSE PlainField(r.bytes, FieldsPrefix \o name, orig0)
           /\ IF C1Writes(r, name) THEN PlainField(r.bytes, name, resv)
              ELSE ~PlainKey(r.bytes, name)
  /\ \A g \in JSONCalls : \A name \in DefaultNames \cap DOMAIN ret[g].arg.Data :
       LET r == ret[g]
           d == Decode(r.bytes)
       IN  (built[r.f].from.FieldMap = << >> /\ r.err = << >>) =>
             /\ d.ok
             /\ (FieldsPrefix \o name) \in DOMAIN d.map
             /\ d.map[FieldsPrefix \o name] = Decoded(r.arg.Data[name])
             /\ IF C1Writes(r, name)
                  THEN /\ name \in DOMAIN d.map
                       /\ d.map[name] =
                            StrVal(ReservedValue(name, r.arg, built[r.f].from.TimestampFormat))
                  ELSE name \notin DOMAIN d.map

\* A non-colored record of an event whose attribute "time" holds an error,
\* with timestamps enabled.
C1_Witness ==
  \E g \in TextCalls :
    /\ ~fmts[ret[g].f].isColored
    /\ ~built[ret[g].f].from.DisableTimestamp
    /\ FieldKeyTime \in DOMAIN ret[g].arg.Data
    /\ ret[g].arg.Data[FieldKeyTime] = vErr

\* The keys the Machine Formatter i is configured to write the reserved
\* fields under.
ResolvedKey(i, name) == resolve(built[i].from.FieldMap, name)

\* The event has an attribute under a reserved name and another under that
\* name prefixed: the documented case in which the later write wins.
DoubleCollision(data) ==
  \E name \in DefaultNames : name \in DOMAIN data /\ (FieldsPrefix \o name) \in DOMAIN data

\* C2 (as stated): decoding a record of the Machine Formatter gives exactly
\* the resolved time, level and msg keys (time iff timestamps are enabled)
\* with their values, plus one key per attribute (its own or the prefixed one)
\* with the attribute's value, an error as its text: nothing is lost or
\* overwritten. Events of the documented double collision are left aside.
C2_Original ==
  \A g \in JSONCalls :
    LET r == ret[g]
        o == built[r.f].from
        d == Decode(r.bytes)
        names == IF o.DisableTimestamp THEN { FieldKeyLevel, FieldKeyMsg } ELSE DefaultNames
        reserved == { ResolvedKey(r.f, name) : name \in names }
    IN  (r.err = << >> /\ ~DoubleCollision(r.arg.Data)) =>
          /\ d.ok
          /\ \A name \in names :
               /\ ResolvedKey(r.f, name) \in DOMAIN d.map
               /\ d.map[ResolvedKey(r.f, name)] =
                    StrVal(ReservedValue(name, r.arg, o.TimestampFormat))
          /\ \A k \in DOMAIN r.arg.Data :
               \E u \in { k, FieldsPrefix \o k } :
                 /\ u \in DOMAIN d.map
                 /\ u \notin reserved
                 /\ d.map[u] = Decoded(r.arg.Data[k])
          /\ Cardinality(DOMAIN d.map) = Cardinality(names) + Cardinality(DOMAIN r.arg.Data)

\* The event of call r has an attribute that cannot be serialized and that
\* reaches the output mapping: no reserved field is written under its key.
C5Unserializable(r) ==
  \E k \in DOMAIN r.arg.Data :
    /\ r.arg.Data[k] = NaNVal
    /\ k \notin DefaultNames
    /\ k \notin { ResolvedKey(r.f, name) : name \in DefaultNames }

\* C5: when a value of the output mapping cannot be serialized, the Machine
\* Formatter's Format returns an error that carries the cause, and a call
\* that returns an error returns no bytes at all.
C5_NoPartialOutput ==
  \A g \in JSONCalls :
    LET r == ret[g]
    IN  /\ C5Unserializable(r) =>
             /\ r.err # << >>
             /\ Contains(r.err, S(<< "u", "n", "s", "u", "p", "p", "o", "r", "t", "e", "d",
                                     " ", "v", "a", "l", "u", "e" >>))
        /\ r.err # << >> => r.bytes = << >>
        /\ r.err = << >> => HasSuffix(r.bytes, << 125, LF >>)

\* A call of the Machine Formatter has failed on a value it cannot serialize.
C5_Witness == \E g \in JSONCalls : ret[g].err # << >> /\ C5Unserializable(ret[g])

\* C6 (as stated): every non-colored record of the Human Formatter has a
\* "level=" field and a "msg=" field, also when the message is empty.
C6_Original ==
  \A g \in TextCalls :
    ~fmts[ret[g].f].isColored =>
      PlainKey(ret[g].bytes, FieldKeyLevel) /\ PlainKey(ret[g].bytes, FieldKeyMsg)

\* C6 (amended): every non-colored record of the Human Formatter has the
\* "level=" field with the level's text; it has the "msg=" field, with the
\* message as its value, exactly when the message is not empty.
C6_Amended ==
  \A g \in TextCalls :
    LET r == ret[g]
    IN  ~fmts[r.f].isColored =>
          /\ PlainField(r.bytes, FieldKeyLevel, LevelString(r.arg.Level))
          /\ IF r.arg.Message = << >> THEN ~PlainKey(r.bytes, FieldKeyMsg)
             ELSE PlainField(r.bytes, FieldKeyMsg, ExpectedValue(r.f, StrVal(r.arg.Message)))

\* A non-colored record of an event with an empty message.
C6_Witness ==
  \E g \in TextCalls : ~fmts[ret[g].f].isColored /\ ret[g].arg.Message = << >>

\* C7: the Human Formatter writes a text value (a string or an error's
\* description) of an attribute, and the time and the message of a
\* non-colored record, without quotes when it is made of a-z, A-Z, 0-9, '-'
\* and '.' only (and is not empty under QuoteEmptyFields), and otherwise
\* between two copies of the configured quote character, " by default.
C7_Quoting ==
  \A g \in TextCalls :
    LET r == ret[g]
        i == r.f
        data == entries[r.e].Data
    IN  /\ \A k \in DOMAIN data :
             data[k].t \in { "str", "err" } =>
               IF fmts[i].isColored
                 THEN ColoredField(r.bytes, k, ExpectedValue(i, data[k]))
                 ELSE PlainField(r.bytes, k, ExpectedValue(i, data[k]))
        /\ (~fmts[i].isColored /\ r.arg.Message # << >>) =>
             PlainField(r.bytes, FieldKeyMsg, ExpectedValue(i, StrVal(r.arg.Message)))
        /\ (~fmts[i].isColored /\ ~built[i].from.DisableTimestamp) =>
             PlainField(r.bytes, FieldKeyTime,
                        ExpectedValue(i, StrVal(ExpectedTime(r.arg.Time,
                                                             built[i].from.TimestampFormat))))

\* A record with a value that needs quotes, an empty value under
\* QuoteEmptyFields and a configured quote character.
C7_Witness ==
  \E g \in TextCalls :
    LET data == entries[ret[g].e].Data
    IN  /\ built[ret[g].f].from.QuoteEmptyFields
        /\ built[ret[g].f].from.QuoteCharacter # << >>
        /\ \E k \in DOMAIN data : data[k] = vEmpty
        /\ \E k \in DOMAIN data : data[k] = vUnsafe

\* Two values of an event are the same event: time, level, message and
\* attributes.
SameEvent(a, b) ==
  /\ a.Time = b.Time
  /\ a.Level = b.Level
  /\ a.Message = b.Message
  /\ DOMAIN a.Data = DOMAIN b.Data
  /\ \A k \in DOMAIN a.Data : a.Data[k] = b.Data[k]

\* C8 (as stated): after any sequence of Format calls an event is what it was
\* before the first call: its time, level, message and attribute mapping.
C8_Original == \A e \in EntIds : entries[e] # None => SameEvent(entries[e], orig[e])

\* The bytes a finished call has written: what it returned, less what the
\* event's buffer held when Format was called.
Prior(r) == IF r.arg.Buffer = None THEN << >> ELSE r.arg.Buffer
Written(r) == SubSeq(r.bytes, Len(Prior(r)) + 1, Len(r.bytes))

\* The bytes hold a terminal escape code.
HasEscape(b) == \E i \in DOMAIN b : b[i] = ESC

\* The number of newline bytes.
Newlines(b) == Cardinality({ i \in DOMAIN b : b[i] = LF })

\* The color decision for formatter i from what Build was handed.
DecisionAtBuild(i) ==
  /\ built[i].from.ForceColors \/ (built[i].terminal /\ goos # "windows")
  /\ ~built[i].from.DisableColors

\* The color decision from the options object and the sink as they are now.
DecisionNow ==
  (factory.ForceColors \/ (isTerminal /\ goos # "windows")) /\ ~factory.DisableColors

\* C4: the color decision is fixed by Build. Whatever has since become of
\* ForceColors and DisableColors in the options object and of the sink, a call
\* writes escape codes iff the options and the sink handed to Build asked for
\* colors; so every call does iff the first one did.
C4_ColorFixedAtBuild ==
  \A g \in TextCalls : HasEscape(Written(ret[g])) <=> DecisionAtBuild(ret[g].f)

\* A call has returned while the options object and the sink ask for another
\* decision than the one taken by Build.
C4_Witness == \E g \in TextCalls : DecisionNow # DecisionAtBuild(ret[g].f)

\* C9 (as stated): with a buffer attached to the event and used again from
\* call to call, Format returns the record of the one event: one record, its
\* newline last, and nothing an earlier call wrote.
C9_Original ==
  \A g \in TextCalls :
    ret[g].arg.Buffer # None =>
      /\ Newlines(ret[g].bytes) = 1
      /\ ret[g].bytes[Len(ret[g].bytes)] = LF

\* C9 (amended): Format appends to the buffer attached to the event. It
\* returns what the buffer held when it was called followed by the one record
\* of the event, newline last, and leaves that in the buffer; the record alone
\* is returned when the caller emptied the buffer before the call.
C9_Amended ==
  \A g \in TextCalls :
    LET r == ret[g]
    IN  r.arg.Buffer # None =>
          /\ HasPrefix(r.bytes, r.arg.Buffer)
          /\ Newlines(Written(r)) = 1
          /\ r.bytes[Len(r.bytes)] = LF
          /\ entries[r.e].Buffer = r.bytes

\* A call has returned for an event whose buffer still held an earlier record.
C9_Witness ==
  \E g \in TextCalls : ret[g].arg.Buffer # None /\ ret[g].arg.Buffer # << >>

\* The whole seconds in d ticks, d >= 0.
WholeSeconds(d) == CHOOSE n \in 0..d : n * Second <= d /\ d < (n + 1) * Second

\* A number below 10000 as 4 digits.
FourDigits(n) ==
  << 48 + ((n \div 1000) % 10), 48 + ((n \div 100) % 10), 48 + ((n \div 10) % 10),
     48 + (n % 10) >>

\* The call r wrote a colored record with a relative timestamp.
RelativeCall(r) ==
  /\ fmts[r.f].isColored
  /\ ~built[r.f].from.DisableTimestamp
  /\ ~built[r.f].from.FullTimestamp

\* The bracketed segment of a colored record holds this number.
Bracketed(b, n) == Contains(b, << 109, 91 >> \o FourDigits(n) \o << 93, 32 >>)

\* C10 (as stated): the bracketed segment of a colored record with a relative
\* timestamp holds the whole seconds between the Build of the formatter and
\* the time of the event, as 4 digits.
C10_Original ==
  \A g \in TextCalls :
    LET r == ret[g]
    IN  (RelativeCall(r) /\ r.arg.Time >= built[r.f].at) =>
          Bracketed(Written(r), WholeSeconds(r.arg.Time - built[r.f].at))

\* C10 (amended): the segment holds the whole seconds between the
\* initialisation of the package (baseTimestamp, set once by init()) and the
\* time of the event, as 4 digits; it does not depend on when the formatter
\* was built, so two formatters show the same value for the same event.
C10_Amended ==
  \A g \in TextCalls :
    LET r == ret[g]
    IN  RelativeCall(r) =>
          Bracketed(Written(r), WholeSeconds(r.arg.Time - baseTimestamp))

\* A colored record with a relative timestamp, written by a formatter built a
\* second or more after the package was initialised, for an event later
\* still.
C10_Witness ==
  \E g \in TextCalls :
    /\ RelativeCall(ret[g])
    /\ built[ret[g].f].at - baseTimestamp >= Second
    /\ ret[g].arg.Time > built[ret[g].f].at

\* What Format returns for the event arg when nothing else runs.
AloneText(r) ==
  LET ev == [r.arg EXCEPT !.Data = prefixFieldClashes(@)]
  IN  \E keys \in FormatKeys(fmts[r.f], ev.Data) :
        r.bytes = textRender(fmts[r.f], ev, keys, baseTimestamp, built[r.f].at,
                             factory, isTerminal, goos)

AloneJSON(r) ==
  LET a == jsonFormat(fmts[r.f], r.arg) IN r.bytes = a.bytes /\ r.err = a.err

\* C3 (as stated): whatever the interleaving of concurrent calls of Format on
\* one built formatter by callers that share no output buffer, every call
\* returns, and returns the bytes it would return if it ran alone on its
\* event.
C3_Original ==
  /\ ~crashed
  /\ \A g \in TextCalls : AloneText(ret[g])
  /\ \A g \in JSONCalls : AloneJSON(ret[g])

\* The part of C3 about the formatter: once built, a formatter is never
\* written.
C3_FormatterFrozen ==
  [][\A i \in FmtIds : fmts[i] # None => fmts'[i] = fmts[i]]_vars

====
